---- MODULE Spec2Model ----
(***************************************************************************)
(* OutreachClient (python_outreach/client.py): the request pipeline of an  *)
(* OAuth2-protected REST client.  One logical call (get/post/update) runs  *)
(* `request` under backoff.on_exception(expo, max_tries=5, factor=3); an   *)
(* attempt first checks the token (refreshing it through a nested,         *)
(* separately decorated `request` to the token endpoint), then issues the  *)
(* transport call and classifies the response.                             *)
(***************************************************************************)
EXTENDS Integers, Sequences, FiniteSets, TLC

VARIABLES
    now,            \* the clock read by datetime.utcnow(), in seconds
    access_token,   \* self.__access_token: None or a token id
    expires_at,     \* self.__expires_at: None or an absolute time
    grant,          \* when line 45 stored access_token, and the expires_in
                    \* that came with it (None: the key was missing)
    quota_limit,    \* self.__quota_limit: None or a percentage
    callers,        \* the threads that use the client
    scope,          \* the with statement around the client, and its session
    probe,          \* one response taken alone: its status and what
                    \* lines 84-112 raise for it
    faults,         \* failed transport calls the environment may still cause
    call,           \* per thread: the logical call in progress
    stats           \* counts over the calls made so far, kept while the
                    \* token endpoint has answered every call successfully

vars == <<now, access_token, expires_at, grant, quota_limit, callers, scope, probe,
          faults, call, stats>>

-----------------------------------------------------------------------------
(* Bounds of the model *)

MaxTime == 3        \* the clock is followed up to this time
MaxCalls == 2       \* logical calls made in one behaviour
MaxRetryAfter == 2  \* largest retry-after header a 429 carries
MinStatus == 100
MaxStatus == 699
MaxNested == 3
ScopeFaults == 2
MaxFaults == 5      \* transport calls that fail in one behaviour

(* Values of the program *)

None == -1          \* Python's None, for the fields set to None in __init__
NoResponse == 0     \* the transport raised ConnectionError: no status
NoHeader == -2      \* a request header that is not sent
max_tries_six == 2 * 3   \* a cap of six tries instead of five
max_tries == 5      \* backoff.on_exception(..., max_tries=5, ...)
factor == 3         \* backoff.on_exception(..., factor=3)
base == 2           \* backoff.expo's default base
drift_pad == 10     \* "pad by 10 seconds for clock drift"

Threads == {1, 2}
Tokens == {1, 2}                     \* access tokens the endpoint hands out
Statuses == {200, 404, 422, 429, 503}
Bodies == {"b1", "b2"}
ExpiresIn == {11, 1000}              \* expires_in values of the token endpoint
Remaining == {0, 10, 100}            \* x-ratelimit-remaining values
Limits == {100}                      \* x-ratelimit-limit values
ResetAhead == 1                      \* x-ratelimit-reset, seconds after the response
QuotaLimits == {None, 85}        \* quota_limit, in percent

-----------------------------------------------------------------------------
(* Transport outcomes: a response, or a ConnectionError raised by the      *)
(* session (status NoResponse).  A token-endpoint response carries the     *)
(* access_token and expires_in of its JSON body.                           *)

Response(s, b, ra, rem, lim, reset) ==
    [status |-> s, body |-> b, retry_after |-> ra, remaining |-> rem,
     limit |-> lim, reset |-> reset]

(* A response whose body and quota headers are not read. *)
Plain(s, ra) == Response(s, "b1", ra, 0, 0, 0)

ConnectionFailure == Plain(NoResponse, 0)

(* What the resource API may answer at time t; f: it may fail. *)
ResourceOutcomes(t, f) ==
    {Response(200, b, 0, rem, lim, t + ResetAhead) :
        b \in Bodies, rem \in Remaining, lim \in Limits}
    \cup IF f
         THEN {ConnectionFailure}
              \cup {Plain(s, 0) : s \in Statuses \ {200, 429}}
              \cup {Plain(429, ra) : ra \in 1..MaxRetryAfter}
         ELSE {}

TokenResponse(s, ra, tok, e) ==
    [status |-> s, retry_after |-> ra, access_token |-> tok, expires_in |-> e]

(* A 200 token response whose JSON body lacks a key (None: no such key). *)
Malformed(o) == o.status = 200 /\ (o.access_token = None \/ o.expires_in = None)

(* What the token endpoint may answer; a new token differs from held.      *)
(* Among the failures are the 200 responses with a key missing.            *)
TokenOutcomes(held, f) ==
    {TokenResponse(200, 0, CHOOSE k \in Tokens : k # held, e) : e \in ExpiresIn}
    \cup IF f
         THEN {TokenResponse(NoResponse, 0, None, 0),
               TokenResponse(200, 0, CHOOSE k \in Tokens : k # held, None),
               TokenResponse(200, 0, None, 1000)}
              \cup {TokenResponse(s, 0, None, 0) : s \in Statuses \ {200, 429}}
              \cup {TokenResponse(429, ra, None, 0) : ra \in 1..MaxRetryAfter}
         ELSE {}

-----------------------------------------------------------------------------
(* A classification without the 422 branch. *)
Classify_generic4xx(status) ==
    IF status = NoResponse THEN "ConnectionError"
    ELSE IF status >= 500 THEN "Server5xxError"
    ELSE IF status = 429 THEN "RateLimitError"
    ELSE IF status >= 400 /\ status < 600 THEN "HTTPError"
    ELSE "none"

(* Response classification: the exception one attempt raises, "none" when  *)
(* it raises nothing (lines 82-112).                                       *)

Classify(status) ==
    IF status = NoResponse THEN "ConnectionError"
    ELSE IF status >= 500 THEN "Server5xxError"
    ELSE IF status = 429 THEN "RateLimitError"
    ELSE IF status = 422 THEN "ValidationError"
    ELSE IF status >= 400 /\ status < 600 THEN "HTTPError"   \* raise_for_status
    ELSE "none"

(* A decorator that retries on every exception. *)
Retryable_any(exc) == TRUE

(* The exceptions backoff.on_exception retries on (line 58). *)
Retryable(exc) == exc \in {"Server5xxError", "RateLimitError", "ConnectionError"}

RECURSIVE Pow(_, _)
Pow(b, n) == IF n = 0 THEN 1 ELSE b * Pow(b, n - 1)

(* A wait generator whose base is the factor: 3, 9, 27, ... *)
expo_ratio3(n) == factor * Pow(factor, n)

(* backoff.expo: the n-th value of the wait generator, n = 0, 1, ... *)
expo(n) == factor * Pow(base, n)

(* backoff's default jitter: a wait drawn from [0, value]; the clock is    *)
(* followed up to MaxTime.                                                 *)
full_jitter(value, t) == {d \in 0..value : t + d <= MaxTime}

(* A 429 branch that raises without sleeping. *)
retry_time_unslept(resp) == 0

(* retry_time of line 88: the sleep of the 429 branch, 0 in the others. *)
retry_time(resp) == IF resp.status = 429 THEN resp.retry_after ELSE 0

(* Python truthiness of the configured quota_limit (line 114). *)
Truthy(q) == q # None /\ q # 0

(* A throttle that ignores skip_quota. *)
Throttles_always(skip_quota, q) == Truthy(q)

(* The condition of line 114: the quota throttle runs. *)
Throttles(skip_quota, q) == ~skip_quota /\ Truthy(q)

(* quota_used of line 116, in percent: 1 - remaining / remaining. *)
quota_used(resp) == 100 - (100 * resp.remaining) \div resp.remaining

(* sleep_for_reset_period: the time slept (lines 52-56). *)
sleep_for_reset_period(resp, t) == (resp.reset - t) + drift_pad

-----------------------------------------------------------------------------
(* One thread's logical call. *)

(* The sleeps after a failed attempt: since, the time the attempt ended;  *)
(* slept, the sleep inside the attempt (line 90); sched and prev, this and *)
(* the previous value of the decorator's wait generator; backoff, the      *)
(* decorator's sleep; retried, another attempt follows.                    *)
NoWait == [since |-> 0, slept |-> 0, backoff |-> 0, sched |-> 0, prev |-> 0,
           retried |-> FALSE]

Idle ==
    [pc |-> "idle",        \* idle, check, refresh, send, returned, raised
     byPath |-> TRUE,      \* called with path (url is None) or with url
     tries |-> 0,          \* tries of the decorator around the call
     itries |-> 0,         \* tries of the decorator around the token call
     calls |-> 0,          \* resource transport calls
     first |-> None,       \* status of the first resource transport call
     last |-> None,        \* status of the last transport call
     lastTok |-> FALSE,    \* the last transport call went to the token endpoint
     retry_after |-> 0,    \* retry-after header of the last response, if a 429
     all5xx |-> TRUE,      \* every resource transport call ended >= 500
     tcalls |-> 0,         \* token transport calls
     got |-> None,         \* token stored by the last refresh of this call
     firstExpired |-> FALSE, \* the first attempt found no valid token
     retryExpired |-> FALSE, \* some retry found no valid token
     nested |-> 0,         \* calls of refresh() in progress, one in another
     checkedAt |-> None,   \* time of this attempt's validity check
     expired |-> FALSE,    \* the last validity check found no valid token
     auth |-> None,        \* token of the last resource call's Authorization
     authFresh |-> FALSE,  \* that token was held and unexpired at the check
     tauth |-> NoHeader,   \* token of the last token call's Authorization
     body |-> "none",      \* body of the last successful resource response
     remaining |-> None,   \* its x-ratelimit-remaining
     limit |-> None,       \* its x-ratelimit-limit
     wait |-> NoWait,      \* sleeps after the attempt that just failed
     throttled |-> FALSE,  \* the last response went through the quota throttle
     slept |-> FALSE,      \* the quota throttle slept
     err |-> "none",       \* exception raised to the caller
     result |-> "none"]    \* body returned to the caller

(* A retry that resumes at the transport call. *)
retry_from_send == "send"

(* Where a retried attempt starts: the decorator of line 58 wraps the      *)
(* whole of request, so at its first statement, the check of line 61.      *)
retry_from == "check"

(* backoff.on_exception around an attempt that raised exc at time t, after *)
(* sleeping ra seconds inside the attempt (the 429 branch).  inner: the    *)
(* attempt is the token call made by refresh(), whose own decorator comes  *)
(* first; what it raises is raised inside the enclosing attempt.  Gives    *)
(* the possible (clock, call) pairs after the decorator's sleep.           *)
on_exception(c, exc, ra, inner, t) ==
    IF Retryable(exc) /\ inner /\ c.itries < max_tries
    THEN {[now |-> t + ra + d,
           c |-> [c EXCEPT !.itries = @ + 1,
                           !.wait = [since |-> t, slept |-> ra, backoff |-> d,
                                     sched |-> expo(c.itries - 1),
                                     prev |-> IF c.itries = 1 THEN 0
                                              ELSE expo(c.itries - 2),
                                     retried |-> TRUE]]]
          : d \in full_jitter(expo(c.itries - 1), t + ra)}
    ELSE IF Retryable(exc) /\ c.tries < max_tries
    THEN {[now |-> t + ra + d,
           c |-> [c EXCEPT !.pc = retry_from, !.itries = 0, !.tries = @ + 1,
                           !.nested = 0,
                           !.checkedAt = None,
                           !.wait = [since |-> t, slept |-> ra, backoff |-> d,
                                     sched |-> expo(c.tries - 1),
                                     prev |-> IF c.tries = 1 THEN 0
                                              ELSE expo(c.tries - 2),
                                     retried |-> TRUE]]]
          : d \in full_jitter(expo(c.tries - 1), t + ra)}
    ELSE {[now |-> t + ra,
           c |-> [c EXCEPT !.pc = "raised", !.itries = 0, !.err = exc,
                           !.nested = 0,
                           !.checkedAt = None,
                           !.wait = [since |-> t, slept |-> ra, backoff |-> 0,
                                     sched |-> 0, prev |-> 0,
                                     retried |-> FALSE]]]}

-----------------------------------------------------------------------------
(* The client outside any with statement; its session is open (line 26). *)
NoScope == [state |-> "outside",   \* outside, inside, left
            session |-> "open",    \* open, closed
            pending |-> "none",    \* error that was leaving the with body
            raised |-> "none"]     \* error that reached the with statement's caller

NoProbe == [status |-> None, outcome |-> "pending"]

NoGrant == [at |-> None, expires_in |-> None]

NoStats == [calls |-> 0, tokenFailed |-> FALSE, tokenPosts |-> 0,
            expiredRequests |-> 0, expiredAttempts |-> 0]

Init ==
    /\ now = 0
    /\ access_token = None
    /\ expires_at = None
    /\ grant = NoGrant
    /\ quota_limit \in QuotaLimits
    /\ callers = {1}
    /\ scope = NoScope
    /\ probe = NoProbe
    /\ faults = MaxFaults
    /\ call = [t \in Threads |-> Idle]
    /\ stats = NoStats

(* Two callers share the client; the transport answers every call. *)
InitConc ==
    /\ now = 0
    /\ access_token = None
    /\ expires_at = None
    /\ grant = NoGrant
    /\ quota_limit \in QuotaLimits
    /\ callers = {1, 2}
    /\ scope = NoScope
    /\ probe = NoProbe
    /\ faults = 0
    /\ call = [t \in Threads |-> Idle]
    /\ stats = NoStats

(* A validity test that still accepts a token at its expiry time. *)
TokenInvalid_strict(tok, exp, t) == tok = None \/ exp < t

(* The validity test of line 61 fails: no token, or an expired one. *)
TokenInvalid(tok, exp, t) == tok = None \/ exp <= t

(* The client is made for one with statement. *)
InitScope ==
    /\ now = 0
    /\ access_token = None
    /\ expires_at = None
    /\ grant = NoGrant
    /\ quota_limit \in QuotaLimits
    /\ callers = {1}
    /\ scope = NoScope
    /\ probe = NoProbe
    /\ faults = ScopeFaults
    /\ call = [t \in Threads |-> Idle]
    /\ stats = NoStats

(* An __exit__ that swallows the error of the with body. *)
exit_value_true == TRUE

(* What __exit__ returns, as a truth value: None (lines 31-32). *)
exit_value == FALSE

(* __enter__: the with statement binds the client (lines 28-29). *)
enter ==
    /\ scope.state = "outside"
    /\ stats.calls = 0
    /\ scope' = [scope EXCEPT !.state = "inside"]
    /\ UNCHANGED <<now, access_token, expires_at, grant, quota_limit, callers,
                   probe, faults, call, stats>>

(* __exit__: the with body ended, normally or (propagating) with the error *)
(* of the call that just raised; the session is closed and the error goes  *)
(* on unless __exit__ returns a true value (lines 31-32).                  *)
exit(t) ==
    /\ t \in callers
    /\ scope.state = "inside"
    /\ call[t].pc \in {"idle", "returned", "raised"}
    /\ \E propagating \in BOOLEAN :
         /\ propagating => call[t].pc = "raised"
         /\ LET e == IF propagating THEN call[t].err ELSE "none"
            IN  scope' = [state |-> "left", session |-> "closed",
                          pending |-> e,
                          raised |-> IF exit_value THEN "none" ELSE e]
    /\ UNCHANGED <<now, access_token, expires_at, grant, quota_limit, callers,
                   probe, faults, call, stats>>

(* A check that does not look at url. *)
MustRefresh_any(byPath, tok, exp, t) == TokenInvalid(tok, exp, t)

(* The condition of line 61: the call is by path (url is None) and the     *)
(* token is absent or expired.                                             *)
MustRefresh(byPath, tok, exp, t) == byPath /\ TokenInvalid(tok, exp, t)

(* get / post / update: a caller starts a logical call, by path or by url, *)
(* dt seconds after the last event (the clock starts at the first call).   *)
Call(t) ==
    /\ t \in callers
    /\ scope.state # "left"
    /\ call[t].pc \in {"idle", "returned", "raised"}
    /\ stats.calls < MaxCalls
    /\ \E p \in BOOLEAN, dt \in 0..(MaxTime - now) :
         /\ stats.calls = 0 => dt = 0
         /\ now' = now + dt
         /\ call' = [call EXCEPT ![t] = [Idle EXCEPT !.pc = "check", !.byPath = p,
                                                     !.tries = 1]]
    /\ stats' = [stats EXCEPT !.calls = @ + 1]
    /\ UNCHANGED <<access_token, expires_at, grant, quota_limit, callers, scope, probe, faults>>

(* request, lines 61-62: the validity check that opens every attempt. *)
request_check(t) ==
    LET c == call[t]
        stale == c.byPath /\ (access_token = None \/ expires_at <= now)
        c1 == [c EXCEPT !.wait = NoWait,
                        !.expired = stale,
                        !.firstExpired = IF c.tries = 1 THEN stale ELSE @,
                        !.retryExpired = IF c.tries > 1 THEN @ \/ stale ELSE @]
        \* line 61 with a token and no expiry compares None with a datetime
        typeError == c.byPath /\ access_token # None /\ expires_at = None
    IN  /\ c.pc = "check"
        /\ IF typeError
           THEN \E n \in on_exception(c1, "TypeError", 0, FALSE, now) :
                     /\ now' = n.now
                     /\ call' = [call EXCEPT ![t] = n.c]
           ELSE /\ now' = now
                /\ call' = [call EXCEPT ![t] =
                      IF MustRefresh(c.byPath, access_token, expires_at, now)
                      THEN [c1 EXCEPT !.pc = "refresh", !.itries = 1,
                                      !.nested = 1,
                                      !.checkedAt = now]
                      ELSE [c1 EXCEPT !.pc = "send",
                                      !.checkedAt = IF c.byPath THEN now ELSE None]]
        /\ stats' = IF stats.tokenFailed THEN stats
                    ELSE [stats EXCEPT
                            !.expiredAttempts = IF stale THEN @ + 1 ELSE @,
                            !.expiredRequests =
                                IF stale /\ c.tries = 1 THEN @ + 1 ELSE @]
        /\ UNCHANGED <<access_token, expires_at, grant, quota_limit, callers, scope, probe, faults>>

(* refresh: one attempt of the token call (request with url and            *)
(* skip_quota), and on success the assignments of lines 45-48.             *)
refresh(t) ==
    LET c == call[t] IN
    /\ c.pc = "refresh"
    /\ IF MustRefresh(FALSE, access_token, expires_at, now) /\ c.nested < MaxNested
       THEN \* the token call (url given) would itself call refresh()
            /\ call' = [call EXCEPT ![t] = [c EXCEPT !.nested = @ + 1]]
            /\ UNCHANGED <<now, access_token, expires_at, grant, faults, stats>>
       ELSE \E o \in TokenOutcomes(access_token, faults > 0) :
               LET \* line 45 or line 48 finds its key missing
                   exc == IF Malformed(o) THEN "KeyError" ELSE Classify(o.status)
                   c1 == [c EXCEPT !.tcalls = @ + 1, !.last = o.status,
                                   !.lastTok = TRUE,
                                   !.tauth = access_token,   \* line 76
                                   !.throttled = /\ Classify(o.status) = "none"
                                                 /\ Throttles(TRUE, quota_limit),
                                   !.retry_after = o.retry_after,
                                   !.wait = NoWait]
               IN  /\ now + retry_time(o) <= MaxTime
                   /\ IF exc = "none"
                      THEN /\ access_token' = o.access_token
                           /\ expires_at' = now + (o.expires_in - drift_pad)
                           /\ grant' = [at |-> now, expires_in |-> o.expires_in]
                           /\ now' = now
                           /\ call' = [call EXCEPT ![t] =
                                         [c1 EXCEPT !.pc = "send", !.itries = 0,
                                                    !.nested = 0,
                                                    !.got = o.access_token]]
                      ELSE /\ \E n \in on_exception(c1, exc, retry_time(o), TRUE, now) :
                                /\ now' = n.now
                                /\ call' = [call EXCEPT ![t] = n.c]
                           /\ IF Malformed(o) /\ o.access_token # None
                              THEN \* line 45 ran, line 48 raised
                                   /\ access_token' = o.access_token
                                   /\ grant' = [at |-> now, expires_in |-> None]
                              ELSE UNCHANGED <<access_token, grant>>
                           /\ UNCHANGED expires_at
                   /\ stats' = IF stats.tokenFailed \/ exc # "none"
                               THEN [NoStats EXCEPT !.calls = stats.calls,
                                                    !.tokenFailed = TRUE]
                               ELSE [stats EXCEPT !.tokenPosts = @ + 1]
                   /\ faults' = IF exc = "none" THEN faults ELSE faults - 1
    /\ UNCHANGED <<quota_limit, callers, scope, probe>>

(* request, lines 64-121: the resource transport call of one attempt, its  *)
(* classification, the quota throttle and the return.                      *)
request_send(t) ==
    LET c == call[t] IN
    /\ c.pc = "send"
    /\ \E o \in ResourceOutcomes(now, faults > 0) :
         LET exc == Classify(o.status)
             c1 == [c EXCEPT !.calls = @ + 1,
                             !.first = IF c.calls = 0 THEN o.status ELSE @,
                             !.last = o.status,
                             !.lastTok = FALSE,
                             !.retry_after = o.retry_after,
                             !.all5xx = @ /\ o.status >= 500,
                             !.auth = access_token,
                             !.authFresh = /\ c.checkedAt # None
                                           /\ access_token # None
                                           /\ expires_at > c.checkedAt,
                             !.checkedAt = None,
                             !.throttled = /\ exc = "none"
                                           /\ Throttles(FALSE, quota_limit),
                             !.wait = NoWait]
             c2 == [c1 EXCEPT !.body = o.body, !.remaining = o.remaining,
                              !.limit = o.limit]
         IN  /\ now + retry_time(o) <= MaxTime
             /\ IF exc # "none"
                THEN \E n \in on_exception(c1, exc, retry_time(o), FALSE, now) :
                          /\ now' = n.now
                          /\ call' = [call EXCEPT ![t] = n.c]
                ELSE IF Throttles(FALSE, quota_limit) /\ o.remaining = 0
                THEN \* ZeroDivisionError on line 116
                     \E n \in on_exception(c2, "ZeroDivisionError", 0, FALSE, now) :
                          /\ now' = n.now
                          /\ call' = [call EXCEPT ![t] = n.c]
                ELSE IF Throttles(FALSE, quota_limit) /\ quota_used(o) > quota_limit
                THEN /\ now' = now + sleep_for_reset_period(o, now)
                     /\ call' = [call EXCEPT ![t] =
                                   [c2 EXCEPT !.pc = "returned", !.slept = TRUE,
                                              !.result = o.body]]
                ELSE /\ now' = now
                     /\ call' = [call EXCEPT ![t] =
                                   [c2 EXCEPT !.pc = "returned", !.result = o.body]]
             /\ faults' = IF o.status = 200 THEN faults ELSE faults - 1
    /\ UNCHANGED <<access_token, expires_at, grant, quota_limit, callers, scope, probe, stats>>

Next ==
    \/ \E t \in Threads : Call(t)
    \/ \E t \in Threads : request_check(t)
    \/ \E t \in Threads : refresh(t)
    \/ \E t \in Threads : request_send(t)

Spec == Init /\ [][Next]_vars

SpecConc == InitConc /\ [][Next]_vars

(* One response of any status, before lines 84-112 have looked at it. *)
InitClassify ==
    /\ now = 0
    /\ access_token = None
    /\ expires_at = None
    /\ grant = NoGrant
    /\ quota_limit \in QuotaLimits
    /\ callers = {}
    /\ scope = NoScope
    /\ probe \in {[status |-> st, outcome |-> "pending"] : st \in MinStatus..MaxStatus}
    /\ faults = 0
    /\ call = [t \in Threads |-> Idle]
    /\ stats = NoStats

(* request, lines 84-112, on the response alone. *)
classify_response ==
    /\ probe.outcome = "pending"
    /\ probe.status # None
    /\ probe' = [probe EXCEPT !.outcome = Classify(probe.status)]
    /\ UNCHANGED <<now, access_token, expires_at, grant, quota_limit, callers,
                   scope, faults, call, stats>>

SpecClassify == InitClassify /\ [][classify_response]_vars

NextScope ==
    \/ enter
    \/ \E t \in Threads : exit(t)
    \/ Next

SpecScope == InitScope /\ [][NextScope]_vars

-----------------------------------------------------------------------------
(* Vocabulary of the properties. *)

(* A transient failure: status >= 500, status 429 or no response at all. *)
Transient(status) == status = NoResponse \/ status = 429 \/ status >= 500

(* The error a transient failure stands for. *)
TransientError(status) ==
    IF status = NoResponse THEN "ConnectionError"
    ELSE IF status = 429 THEN "RateLimitError"
    ELSE "Server5xxError"

(* A client error that is not a rate limit: 422 and the other 4xx. *)
Fatal4xx(status) == status >= 400 /\ status < 500 /\ status # 429

(* The logical call of thread t has made no refresh so far. *)
NoRefresh(t) == call[t].tcalls = 0 /\ call[t].pc # "refresh"

(* Threads about to make one more refresh POST. *)
Refreshing == {t \in Threads : call[t].pc = "refresh"}

-----------------------------------------------------------------------------
(* C1: in a logical call that makes no refresh, a further attempt is       *)
(* started only after an attempt that ended in a transient failure, at     *)
(* most 5 transport calls are made, and a transient failure of the 5th     *)
(* attempt is raised to the caller.                                        *)
C1_RetryBudget ==
    \A t \in Threads :
        LET c == call[t] IN
        NoRefresh(t) =>
            /\ c.calls <= 5
            /\ (c.calls >= 1 /\ c.pc \in {"check", "send"}) => Transient(c.last)
            /\ (c.calls = 5 /\ Transient(c.last)) =>
                   (c.pc = "raised" /\ c.err = TransientError(c.last))

(* A call by path that found a valid token fails five times and raises. *)
C1_Witness ==
    \E t \in Threads :
        LET c == call[t] IN
        /\ c.byPath /\ ~c.firstExpired /\ NoRefresh(t)
        /\ c.calls = 5 /\ c.pc = "raised" /\ c.err = "Server5xxError"

(* C2: a 422, or another 4xx that is not 429, on any attempt of either     *)
(* endpoint ends the logical call at once: ValidationError for 422, the    *)
(* generic HTTP error for the others, with no sleep and no retry.          *)
C2_FatalNotRetried ==
    \A t \in Threads :
        LET c == call[t] IN
        (c.last # None /\ Fatal4xx(c.last)) =>
            /\ c.pc = "raised"
            /\ c.err = IF c.last = 422 THEN "ValidationError" ELSE "HTTPError"
            /\ ~c.wait.retried
            /\ now = c.wait.since

(* A 422 that arrives on a retry. *)
C2_Witness ==
    \E t \in Threads :
        LET c == call[t] IN
        c.tries >= 2 /\ c.calls >= 2 /\ c.last = 422 /\ c.pc = "raised"

(* C3 as stated: in a call whose attempts all end >= 500, each backoff     *)
(* delay is 3 times the previous one (read on the scheduled delays).       *)
C3_Ratio3 ==
    \A t \in Threads :
        LET c == call[t] IN
        (c.all5xx /\ c.calls >= 2 /\ NoRefresh(t) /\ c.wait.retried) =>
            /\ c.wait.sched = 3 * c.wait.prev
            /\ c.wait.sched > c.wait.prev

(* C3, amended: in a call whose attempts all end >= 500, the delays        *)
(* scheduled before attempts 2, 3, 4, 5 are 3, 6, 12 and 24 seconds, each  *)
(* twice the previous one, and the delay waited lies between 0 and the     *)
(* scheduled one.                                                          *)
C3_Schedule ==
    \A t \in Threads :
        LET c == call[t] IN
        (c.all5xx /\ c.calls >= 1 /\ NoRefresh(t) /\ c.wait.retried) =>
            /\ c.wait.sched = <<3, 6, 12, 24>>[c.calls]
            /\ c.calls >= 2 => (c.wait.sched = 2 * c.wait.prev
                                /\ c.wait.sched > c.wait.prev)
            /\ c.wait.backoff \in 0..c.wait.sched
            /\ now = c.wait.since + c.wait.backoff

(* The fourth delay has been scheduled, before attempt 5. *)
C3_Witness ==
    \E t \in Threads :
        LET c == call[t] IN
        /\ c.all5xx /\ c.calls = 4 /\ NoRefresh(t) /\ c.wait.retried
        /\ c.tries = 5

(* C4 as stated: after a 429 with retry-after N, exactly N seconds pass    *)
(* before the next attempt.                                                *)
C4_ExactlyRetryAfter ==
    \A t \in Threads :
        LET c == call[t] IN
        (c.last = 429 /\ c.wait.retried) => now - c.wait.since = c.retry_after

(* C4, amended: after a 429 with retry-after N, the time that passes       *)
(* before the next attempt is N seconds plus the backoff delay of that     *)
(* retry, which lies between 0 and the scheduled delay: at least N.        *)
C4_AtLeastRetryAfter ==
    \A t \in Threads :
        LET c == call[t] IN
        (c.last = 429 /\ c.wait.retried) =>
            /\ c.wait.slept = c.retry_after
            /\ now - c.wait.since = c.retry_after + c.wait.backoff
            /\ c.wait.backoff \in 0..c.wait.sched
            /\ now - c.wait.since >= c.retry_after

(* A 429 with retry-after 2 that is followed by a backoff delay. *)
C4_Witness ==
    \E t \in Threads :
        LET c == call[t] IN
        /\ c.last = 429 /\ c.wait.retried /\ c.retry_after = 2
        /\ c.wait.backoff > 0 /\ c.pc = "check"

(* C5 as stated: while the token endpoint answers successfully, the        *)
(* refresh calls made are as many as the requests that started with the    *)
(* token absent or expired.                                                *)
C5_OnePerRequest ==
    ~stats.tokenFailed =>
        stats.tokenPosts + Cardinality(Refreshing) = stats.expiredRequests

(* C5, amended: while the token endpoint answers successfully, every       *)
(* attempt by path (first or retry) that starts with the token absent or   *)
(* expired issues exactly one refresh POST before its resource call, and   *)
(* an attempt that starts with a valid token issues none: the refresh      *)
(* calls are as many as those attempts.                                    *)
C5_OnePerAttempt ==
    /\ ~stats.tokenFailed =>
           stats.tokenPosts + Cardinality(Refreshing) = stats.expiredAttempts
    /\ \A t \in Threads :
           LET c == call[t] IN
           (~stats.tokenFailed /\ c.pc = "send" /\ c.byPath) =>
               /\ (c.tries = 1 /\ c.firstExpired) => c.tcalls = 1
               /\ (c.tries = 1 /\ ~c.firstExpired) => c.tcalls = 0

(* A request whose first attempt and whose retry both started without a   *)
(* valid token: two refresh calls, one before each resource call.          *)
C5_Witness ==
    /\ ~stats.tokenFailed
    /\ stats.tokenPosts = 2 /\ stats.expiredAttempts = 2
    /\ \E t \in Threads :
           LET c == call[t] IN
           /\ c.firstExpired /\ c.retryExpired /\ c.tcalls = 2
           /\ c.calls = 2 /\ c.pc = "returned"

(* C6: after a successful response of a non-token call with quota_limit   *)
(* configured, the client sleeps for the reset period if and only if the   *)
(* consumed fraction 1 - remaining/limit exceeds quota_limit.              *)
C6_ThrottleOnConsumed ==
    \A t \in Threads :
        LET c == call[t] IN
        (c.last = 200 /\ ~c.lastTok /\ Truthy(quota_limit)) =>
            (c.slept <=> (c.limit - c.remaining) * 100 > quota_limit * c.limit)

(* C7: while the token endpoint keeps failing transiently, a request that  *)
(* needs a refresh makes at most 5 token calls, raises the 5th failure,    *)
(* and makes no resource call.                                             *)
C7_RefreshBudget ==
    \A t \in Threads :
        LET c == call[t] IN
        (c.byPath /\ c.firstExpired /\ c.got = None) =>
            /\ c.calls = 0
            /\ c.tcalls <= 5
            /\ (c.tcalls = 5 /\ Transient(c.last)) =>
                   (c.pc = "raised" /\ c.err = TransientError(c.last))

(* C8: a call by path that starts with no valid token, whose first         *)
(* resource call answers 503 and whose second answers 200, has made one    *)
(* refresh call and two resource calls, both carrying the new token, and   *)
(* returns the body of the 200 response.                                   *)
C8_EndToEnd ==
    \A t \in Threads :
        LET c == call[t] IN
        (/\ c.byPath /\ c.firstExpired /\ ~stats.tokenFailed
         /\ c.calls = 2 /\ c.first = 503 /\ c.last = 200 /\ ~c.lastTok) =>
            /\ c.tcalls = 1
            /\ c.auth = c.got /\ c.got # None
            /\ c.pc = "returned" /\ c.result = c.body

(* C9: every resource transport call carries a token that is held and was  *)
(* unexpired at the validity check of its attempt.                         *)
C9_ValidBearer ==
    \A t \in Threads : call[t].calls >= 1 => call[t].authFresh

(* C10: two callers never run the refresh exchange at the same time. *)
C10_OneRefresher == Cardinality(Refreshing) <= 1

(* C11: whenever the response of a non-token call has status < 400, for   *)
(* every value of the quota headers, the call returns the decoded body of  *)
(* that response and raises nothing.                                       *)
C11_SuccessReturnsBody ==
    \A t \in Threads :
        LET c == call[t] IN
        (c.calls >= 1 /\ ~c.lastTok /\ c.last # NoResponse /\ c.last < 400) =>
            (c.pc = "returned" /\ c.result = c.body /\ c.err = "none")

(* C12: in every reachable state, after any sequence of requests and of    *)
(* successful, failed or malformed token responses, a held access_token    *)
(* comes with an expires_at, and that expires_at is the time of the        *)
(* refresh that stored the token plus its expires_in minus ten seconds.    *)
C12_TokenStateInvariant ==
    access_token # None =>
        /\ expires_at # None
        /\ grant.expires_in # None
        /\ expires_at = grant.at + grant.expires_in - drift_pad

(* C13: the token-refresh POST carries no Authorization header, whether    *)
(* or not a stale token is held.                                           *)
C13_TokenPostUnauthenticated ==
    \A t \in Threads : call[t].tcalls >= 1 => call[t].tauth = NoHeader

(* C14: the quota throttle runs only on a response with status < 400 of a  *)
(* call that is not the refresh call, with quota_limit configured: never   *)
(* after a 5xx, a 429, a 422 or another 4xx, never for the token call,     *)
(* never when quota_limit is unset.                                        *)
C14_ThrottleOnlyOnSuccess ==
    \A t \in Threads :
        LET c == call[t] IN
        c.throttled =>
            /\ c.last # NoResponse /\ c.last < 400
            /\ ~c.lastTok
            /\ quota_limit # None

(* A resource call's 200 response went through the throttle, after a       *)
(* refresh in the same call that did not.                                  *)
C14_Witness ==
    \E t \in Threads :
        LET c == call[t] IN
        c.throttled /\ c.pc = "returned" /\ c.tcalls >= 1 /\ c.last = 200

(* C15: when the client is used as a scoped resource, leaving the scope    *)
(* closes the session on every exit path, normal or raised, and an error   *)
(* raised in the scope still reaches the caller.                           *)
C15_ScopeCloses ==
    scope.state = "left" =>
        /\ scope.session = "closed"
        /\ scope.raised = scope.pending

(* The scope was left by an error of a call, with the session closed. *)
C15_Witness ==
    /\ scope.state = "left"
    /\ scope.session = "closed"
    /\ scope.pending # "none"
    /\ \E t \in Threads : call[t].pc = "raised" /\ call[t].err = scope.raised

(* C16: the classification of a response is total and exclusive, with      *)
(* this precedence: status >= 500 is a server error; 429 is a rate limit;  *)
(* 422 is a validation error; every other status >= 400 is a generic HTTP  *)
(* error; status < 400 is a success.                                       *)
C16_Classification ==
    probe.outcome # "pending" =>
        LET st == probe.status
            classes == {k \in {"Server5xxError", "RateLimitError",
                               "ValidationError", "HTTPError", "none"} :
                          \/ k = "Server5xxError" /\ st >= 500
                          \/ k = "RateLimitError" /\ st = 429
                          \/ k = "ValidationError" /\ st = 422
                          \/ k = "HTTPError" /\ st >= 400 /\ st < 500
                                             /\ st \notin {422, 429}
                          \/ k = "none" /\ st < 400}
        IN  classes = {probe.outcome}

(* A 422 response has been classified as a validation error. *)
C16_Witness == probe.status = 422 /\ probe.outcome = "ValidationError"

(* C17: every retry of a request by path re-runs the token-validity check  *)
(* before its transport call: when the token has expired since the first   *)
(* attempt, the retry refreshes before the resource call, and when it is   *)
(* still valid the retry makes no token call.                              *)
C17_RetryRechecks ==
    \A t \in Threads :
        LET c == call[t] IN
        (c.byPath /\ c.tries > 1 /\ c.pc = "send") =>
            /\ c.checkedAt # None
            /\ c.expired =>
                  /\ c.lastTok /\ c.last = 200
                  /\ access_token = c.got
                  /\ ~TokenInvalid(access_token, expires_at, c.checkedAt)
            /\ ~c.expired =>
                  /\ ~c.lastTok
                  /\ ~TokenInvalid(access_token, expires_at, c.checkedAt)

(* The token was valid at the first attempt, expired during the wait, and  *)
(* the retry has refreshed and is about to make its resource call.         *)
C17_Witness ==
    \E t \in Threads :
        LET c == call[t] IN
        /\ c.byPath /\ c.tries > 1 /\ c.pc = "send"
        /\ ~c.firstExpired /\ c.expired /\ c.lastTok /\ c.calls >= 1

(* C18: the token state (access_token, expires_at) changes only at the     *)
(* completion of a successful refresh exchange: a step that changes either *)
(* field is a refresh step that received a 200 token response and goes on  *)
(* to the resource call, and it changes both; a refresh that ends in an    *)
(* error leaves both at their previous values.                             *)
C18_TokenFrame ==
    [][(access_token' # access_token \/ expires_at' # expires_at) =>
          \E t \in Threads :
              /\ call[t].pc = "refresh"
              /\ call'[t].pc = "send"
              /\ call'[t].last = 200
              /\ access_token' = call'[t].got
              /\ expires_at' = grant'.at + grant'.expires_in - drift_pad]_vars

(* C19: on every 429 the client sleeps the full retry-after before the     *)
(* RateLimitError leaves the attempt, the fifth attempt included: the      *)
(* caller gets the fatal RateLimitError only after a retry-after wait that *)
(* no further attempt and no backoff delay follows.                        *)
C19_FinalRetryAfter ==
    \A t \in Threads :
        LET c == call[t] IN
        /\ (c.last = 429 /\ (c.wait.retried \/ c.pc = "raised")) =>
               c.wait.slept = c.retry_after /\ c.retry_after >= 1
        /\ (c.pc = "raised" /\ c.err = "RateLimitError") =>
               /\ c.last = 429
               /\ c.tries = max_tries
               /\ ~c.wait.retried
               /\ c.wait.backoff = 0
               /\ now = c.wait.since + c.retry_after

(* The fifth resource call of a request was answered 429 and the request   *)
(* has raised RateLimitError after the retry-after sleep.                  *)
C19_Witness ==
    \E t \in Threads :
        LET c == call[t] IN
        /\ c.pc = "raised" /\ c.err = "RateLimitError"
        /\ ~c.lastTok /\ c.calls = 5 /\ c.tries = 5
        /\ c.wait.slept >= 1 /\ now > c.wait.since

(* Progress of a logical call: three per transport call made, plus the    *)
(* position inside the attempt.                                            *)
Progress(c) ==
    3 * (c.calls + c.tcalls)
    + (IF c.pc = "check" THEN 0 ELSE IF c.pc = "refresh" THEN 1 ELSE 2)

(* C20: the refresh exchange never triggers another refresh (the token     *)
(* call is made by url and skips the check), so refresh() is never entered *)
(* inside itself; and a logical call ends after a bounded number of        *)
(* transport calls, whatever the transport answers: every step of a call   *)
(* in progress either ends the call or moves it forward, and it never      *)
(* makes more than max_tries resource calls and max_tries * max_tries      *)
(* token calls.                                                            *)
C20_BoundedCall ==
    [][\A t \in Threads :
          (call[t].pc \in {"check", "refresh", "send"} /\ call'[t] # call[t]) =>
              /\ call'[t].nested <= 1
              /\ call'[t].pc = "refresh" <=> call'[t].nested = 1
              /\ call'[t].calls <= 5
              /\ call'[t].tcalls <= 25
              /\ call'[t].tcalls <= 5 * call'[t].tries
              /\ \/ call'[t].pc \in {"returned", "raised"}
                 \/ Progress(call'[t]) > Progress(call[t])]_vars

(* A call that ended after six token calls: five of the first attempt,     *)
(* which were retried inside refresh(), and one of the second attempt.     *)
C20_Witness ==
    \E t \in Threads :
        LET c == call[t] IN
        c.pc = "returned" /\ c.tcalls = 6 /\ c.tries = 2 /\ c.calls = 1

TypeOK ==
    /\ now \in 0..(MaxTime + drift_pad + ResetAhead)
    /\ faults \in 0..MaxFaults
    /\ stats.calls \in 0..MaxCalls
    /\ access_token \in Tokens \cup {None}
    /\ grant.at \in (0..MaxTime) \cup {None}
    /\ grant.expires_in \in ExpiresIn \cup {None}
    /\ \A t \in Threads : call[t].tries \in 0..max_tries

====
